---- MODULE Spec2Model ----
(***************************************************************************)
(* A model of mmworkbench.models.text_models.TextModel: the training       *)
(* entry points (fit, select_params), the prediction entry points          *)
(* (predict, predict_proba, predict_log_proba, evaluate), the parameter    *)
(* resolver (_convert_params) and the pickling hook (__getstate__).        *)
(*                                                                         *)
(* Python values are modelled as follows.                                  *)
(*   - a dict is a function whose DOMAIN is the set of its keys;           *)
(*   - None-able dicts are records [none, d];                              *)
(*   - an sklearn estimator is a record with a `fitted` flag and its       *)
(*     learned attributes;                                                 *)
(*   - a float is a record [inf, hi, lo] standing for hi*1e10 + lo/10000,  *)
(*     or for -Infinity when inf = -1 (TLC integers are 32 bit wide and    *)
(*     cannot hold 1e10 in ten-thousandths);                               *)
(*   - class weights are exact rationals <<num, den>> in lowest terms.     *)
(***************************************************************************)
EXTENDS Integers, Sequences, FiniteSets, TLC

VARIABLES
    config,           \* self.config: classifier_type, params, param_selection, settings
    class_encoder,    \* self._class_encoder (SKLabelEncoder)
    feat_vectorizer,  \* self._feat_vectorizer (DictVectorizer)
    feat_scaler,      \* self._feat_scaler (None or a scaler)
    feat_selector,    \* self._feat_selector (None or a selector)
    clf,              \* self._clf
    current_params,   \* self._current_params
    resources,        \* self._resources
    call,             \* the inputs of the last call (history variable)
    result,           \* the outcome of the last call
    completed         \* the training calls that have fitted a classifier (history variable)

vars == <<config, class_encoder, feat_vectorizer, feat_scaler, feat_selector,
          clf, current_params, resources, call, result, completed>>

fitted_state == <<class_encoder, feat_vectorizer, feat_scaler, feat_selector, clf>>

----------------------------------------------------------------------------
(* Bounds *)

\* longest training batch passed to fit / select_params
MaxLen == 2

----------------------------------------------------------------------------
(* Floats *)

Flt(inf, hi, lo) == [inf |-> inf, hi |-> hi, lo |-> lo]

Fin(lo) == Flt(0, 0, lo)

NegInfinity == Flt(-1, 0, 0)

\* x > y on floats
FGt(x, y) ==
    \/ x.inf > y.inf
    \/ x.inf = y.inf /\ x.hi > y.hi
    \/ x.inf = y.inf /\ x.hi = y.hi /\ x.lo > y.lo

\* _NEG_INF = -1e10
_NEG_INF == Flt(0, -1, 0)

\* the default of probabilities.get(top_class, -1.0)
MinusOne == Fin(-10000)

\* probabilities a classifier may return: 0, 1/3, 1/2, 1
ProbaValues == {Fin(0), Fin(3333), Fin(5000), Fin(10000)}

\* their logarithms: -inf, log 1/3, log 1/2, 0
LogProbaValues == {NegInfinity, Fin(-10986), Fin(-6931), Fin(0)}

\* the probability a value stands for, in sixths
Mass(v, logs) ==
    IF logs
    THEN IF v = Fin(-10986) THEN 2 ELSE IF v = Fin(-6931) THEN 3 ELSE IF v = Fin(0) THEN 6 ELSE 0
    ELSE IF v = Fin(3333) THEN 2 ELSE IF v = Fin(5000) THEN 3 ELSE IF v = Fin(10000) THEN 6 ELSE 0

RECURSIVE TotalMass(_, _)
TotalMass(row, logs) ==
    IF row = <<>> THEN 0 ELSE Mass(Head(row), logs) + TotalMass(Tail(row), logs)

----------------------------------------------------------------------------
(* Rationals *)

RECURSIVE Gcd(_, _)
Gcd(a, b) == IF b = 0 THEN a ELSE Gcd(b, a % b)

Abs(n) == IF n < 0 THEN -n ELSE n

Rat(n, d) ==
    LET g == Gcd(Abs(n), Abs(d))
        s == IF d < 0 THEN -1 ELSE 1
    IN  <<(s * n) \div g, (s * d) \div g>>

RAdd(x, y) == Rat(x[1] * y[2] + y[1] * x[2], x[2] * y[2])
RSub(x, y) == Rat(x[1] * y[2] - y[1] * x[2], x[2] * y[2])
RMul(x, y) == Rat(x[1] * y[1], x[2] * y[2])
RDiv(x, y) == Rat(x[1] * y[2], x[2] * y[1])
RInt(n) == <<n, 1>>

----------------------------------------------------------------------------
(* Python dicts *)

EmptyDict == <<>>

DictSet(d, k, v) == [x \in DOMAIN d \cup {k} |-> IF x = k THEN v ELSE d[x]]

DictDel(d, k) == [x \in DOMAIN d \ {k} |-> d[x]]

DictGet(d, k, default) == IF k \in DOMAIN d THEN d[k] ELSE default

None == [none |-> TRUE, d |-> EmptyDict]

Some(d) == [none |-> FALSE, d |-> d]

\* Python truthiness of a dict-or-None
Truthy(p) == ~p.none /\ DOMAIN p.d # {}

----------------------------------------------------------------------------
(* Labels, examples and the external collaborators *)

\* application-facing labels
Labels == {"a", "b", "c"}

\* the label encoder: a bijection between labels and raw label strings
LabelEncode(l) == CASE l = "a" -> "ra" [] l = "b" -> "rb" [] l = "c" -> "rc"

LabelDecode(r) == CASE r = "ra" -> "a" [] r = "rb" -> "b" [] r = "rc" -> "c"

\* raw label strings in sort order
RawOrder == <<"ra", "rb", "rc">>

Examples == {"e1", "e2"}

\* the feature extractor: example -> mapping(feature name -> number)
ExtractFeatures(e) ==
    IF e = "e1" THEN [f \in {"f1"} |-> 1]
    ELSE [f \in {"f1", "f2"} |-> IF f = "f1" THEN 2 ELSE 1]

Range(s) == {s[i] : i \in DOMAIN s}

SeqsUpTo(S, n) == UNION {[1..k -> S] : k \in 0..n}

\* random.shuffle(indices): any permutation of the indices
Shuffles(n) == {p \in [1..n -> 1..n] : Range(p) = 1..n}

Reindex(s, p) == [i \in DOMAIN p |-> s[p[i]]]

----------------------------------------------------------------------------
(* sklearn estimators, as far as the model core uses them *)

\* SKLabelEncoder()
NewClassEncoder == [fitted |-> FALSE, classes_ |-> <<>>]

\* SKLabelEncoder.fit: classes_ is the sorted array of distinct labels
ClassEncoderFit(raw) ==
    [fitted |-> TRUE, classes_ |-> SelectSeq(RawOrder, LAMBDA r : r \in Range(raw))]

\* the class id of raw label r; -1 stands for "previously unseen label"
ClassId(enc, r) ==
    IF enc.fitted /\ r \in Range(enc.classes_)
    THEN (CHOOSE i \in DOMAIN enc.classes_ : enc.classes_[i] = r) - 1
    ELSE -1

ClassEncoderTransform(enc, raw) == [i \in DOMAIN raw |-> ClassId(enc, raw[i])]

\* SKLabelEncoder.inverse_transform is defined on ids of the fitted label set
CanInverse(enc, id) == enc.fitted /\ id >= 0 /\ id < Len(enc.classes_)

InverseTransform(enc, id) == enc.classes_[id + 1]

\* DictVectorizer()
NewVectorizer == [fitted |-> FALSE, vocabulary_ |-> {}]

VectorizerFit(feats) ==
    [fitted |-> TRUE, vocabulary_ |-> UNION {DOMAIN feats[i] : i \in DOMAIN feats}]

\* the largest absolute value of feature f in the batch
MaxAbs(feats, f) ==
    LET vals == {DictGet(feats[i], f, 0) : i \in DOMAIN feats}
    IN  CHOOSE v \in vals : \A w \in vals : w <= v

ScalerFit(scaler, feats) ==
    [kind |-> scaler.kind, fitted |-> TRUE,
     stats |-> [f \in VectorizerFit(feats).vocabulary_ |-> MaxAbs(feats, f)]]

\* _get_feature_scaler: None unless the setting names a known scaler
GetFeatureScaler(scale_type) ==
    [kind |-> IF scale_type \in {"std-dev", "max-abs"} THEN scale_type ELSE "none",
     fitted |-> FALSE, stats |-> EmptyDict]

\* _get_feature_selector: None unless the setting names a known selector
GetFeatureSelector(selector_type) ==
    [kind |-> IF selector_type \in {"l1", "f"} THEN selector_type ELSE "none",
     fitted |-> FALSE, columns |-> {}, classes |-> {}]

\* selector.fit(X, y): the mask is a function of the data it is learned from,
\* recorded as the columns of X and the class ids of y
SelectorFit(selector, feats, y) ==
    [kind |-> selector.kind, fitted |-> TRUE,
     columns |-> VectorizerFit(feats).vocabulary_, classes |-> Range(y)]

----------------------------------------------------------------------------
(* Classifier kinds *)

LOG_REG_TYPE == "logreg"
DECISION_TREE_TYPE == "dtree"
RANDOM_FOREST_TYPE == "rforest"
SVM_TYPE == "svm"

\* _get_model_constructor: the constructor table; ok = FALSE is the KeyError
\* turned into ValueError('... Classifier type {!r} not recognized')
GetModelConstructor(classifier_type) ==
    IF classifier_type \in {LOG_REG_TYPE, DECISION_TREE_TYPE, RANDOM_FOREST_TYPE, SVM_TYPE}
    THEN [ok |-> TRUE, class |-> classifier_type, error |-> "", names |-> ""]
    ELSE [ok |-> FALSE, class |-> "", error |-> "ValueError", names |-> classifier_type]

NoClf == [none |-> TRUE, class |-> "", params |-> EmptyDict, n_classes |-> 0]

\* model_class(**params).fit(X, y)
FittedClf(class, params, n_classes) ==
    [none |-> FALSE, class |-> class, params |-> params, n_classes |-> n_classes]

----------------------------------------------------------------------------
(* The parameter resolver *)

\* keys of a class_weight mapping: a class id (int) or a raw label (str)
IntKey(i) == <<"int", i>>

StrKey(r) == <<"str", r>>

\* isinstance(k, int)
IsInt(k) == k[1] = "int"

\* numpy.bincount(y): the number of occurrences of 0 .. max(y), as a sequence
BinCount(y) ==
    LET top == IF y = <<>> THEN -1 ELSE CHOOSE m \in Range(y) : \A v \in Range(y) : v <= m
    IN  [c \in 1..(top + 1) |-> Cardinality({i \in DOMAIN y : y[i] = c - 1})]

\* a faulty variant of BalancedWeight: the number of classes is left out
BalancedWeightPerCount(y, classes, c) == RDiv(RInt(Len(y)), RInt(c))

\* balanced_w = [old_div(len(y), float(len(classes)) * c) for c in class_count]
BalancedWeight(y, classes, c) == RDiv(RInt(Len(y)), RInt(Len(classes) * c))

\* {c: (1 - class_bias) + class_bias * w for c, w in balanced_tuples}
\* (zip stops at the shorter of range(len(classes)) and balanced_w)
BiasWeights(class_bias, y, classes) ==
    LET class_count == BinCount(y)
        n == IF Len(classes) < Len(class_count) THEN Len(classes) ELSE Len(class_count)
    IN  [k \in {IntKey(c) : c \in 0..(n - 1)} |->
            RAdd(RSub(RInt(1), class_bias),
                 RMul(class_bias, BalancedWeight(y, classes, class_count[k[2] + 1])))]

\* a faulty variant of WeightKey: every key is kept as given
WeightKeyAsGiven(enc, k) == k

\* the key a class_weight key is rewritten to
WeightKey(enc, k) == IF IsInt(k) THEN k ELSE IntKey(ClassId(enc, k[2]))

\* {k if isinstance(k, int) else transform((k,))[0]: v for k, v in cw_dict.items()}
\* (no mapping drawn by this model holds two keys that are rewritten to one)
ConvertWeights(enc, cw_dict) ==
    [nk \in {WeightKey(enc, k) : k \in DOMAIN cw_dict} |->
        cw_dict[CHOOSE k \in DOMAIN cw_dict : WeightKey(enc, k) = nk]]

\* transform((k,)) raises ValueError on a label the encoder has not seen
WeightsConvertible(enc, cw_dict) ==
    \A k \in DOMAIN cw_dict : IsInt(k) \/ ClassId(enc, k[2]) >= 0

\* _convert_params(param_grid, y, is_grid): the dict is rewritten in place, so
\* `d` is both the return value and the new content of the caller's dict
ConvertParams(param_grid, y, is_grid, enc) ==
    IF param_grid.none
    THEN [ok |-> FALSE, error |-> "TypeError", d |-> EmptyDict]
    ELSE LET d == param_grid.d IN
         IF "class_weight" \in DOMAIN d
         THEN LET raw_weights == IF is_grid THEN d["class_weight"] ELSE <<d["class_weight"]>>
                  weights == [i \in DOMAIN raw_weights |-> ConvertWeights(enc, raw_weights[i])]
              IN  IF \A i \in DOMAIN raw_weights : WeightsConvertible(enc, raw_weights[i])
                  THEN [ok |-> TRUE, error |-> "",
                        d |-> DictSet(d, "class_weight", IF is_grid THEN weights ELSE weights[1])]
                  ELSE [ok |-> FALSE, error |-> "ValueError", d |-> d]
         ELSE IF "class_bias" \in DOMAIN d
         THEN LET raw_bias == IF is_grid THEN d["class_bias"] ELSE <<d["class_bias"]>>
                  weights == [i \in DOMAIN raw_bias |-> BiasWeights(raw_bias[i], y, enc.classes_)]
              IN  [ok |-> TRUE, error |-> "",
                   d |-> DictDel(DictSet(d, "class_weight",
                                         IF is_grid THEN weights ELSE weights[1]),
                                 "class_bias")]
         ELSE [ok |-> TRUE, error |-> "", d |-> d]

----------------------------------------------------------------------------
(* Calls and their outcomes *)

\* op: the method; explicit: the params / param_grid argument; distinct: the
\* number of distinct labels passed; mode: "direct" or "cv" training;
\* extracted: the number of feature extractions; rows: what the classifier
\* returned; y and is_grid: the other arguments of _convert_params
Call(op) ==
    [op |-> op, explicit |-> None, distinct |-> 0, mode |-> "",
     extracted |-> 0, rows |-> <<>>, y |-> <<>>, is_grid |-> FALSE]

Returned ==
    [status |-> "ok", error |-> "", names |-> "", labels |-> <<>>,
     predictions |-> <<>>, evaluations |-> <<>>, params |-> None, attributes |-> <<>>]

Raised(error, names) == [Returned EXCEPT !.status = "error", !.error = error, !.names = names]

----------------------------------------------------------------------------
(* Training *)

\* the candidates of a grid: one value per parameter name
Candidates(grid) ==
    LET width == [k \in DOMAIN grid |-> Len(grid[k])]
        top == IF DOMAIN grid = {} THEN 0
               ELSE CHOOSE m \in Range(width) : \A w \in Range(width) : w <= m
    IN  {[k \in DOMAIN grid |-> grid[k][idx[k]]] :
            idx \in {f \in [DOMAIN grid -> 1..top] : \A k \in DOMAIN grid : f[k] <= width[k]}}

\* _preprocess_data(X, y, fit=True) after the feature extraction of
\* get_feature_matrix: every stage is fitted, in the order encoder, vectorizer,
\* scaler, selector
FitPipeline(raw, feats) ==
    /\ class_encoder' = ClassEncoderFit(raw)
    /\ feat_vectorizer' = VectorizerFit(feats)
    /\ feat_scaler' = IF feat_scaler.kind = "none" THEN feat_scaler
                      ELSE ScalerFit(feat_scaler, feats)
    /\ feat_selector' = IF feat_selector.kind = "none" THEN feat_selector
                        ELSE SelectorFit(feat_selector, feats,
                                         ClassEncoderTransform(ClassEncoderFit(raw), raw))

\* _fit(X, y, params): resolve the parameters (in place), look the constructor
\* up, construct and fit. `fit_ok` is whether the classifier's own fit succeeds.
DirectFit(params, y, enc, fit_ok) ==
    LET conv == ConvertParams(params, y, FALSE, enc)
        ctor == GetModelConstructor(config.classifier_type)
    IN  IF ~conv.ok THEN [ok |-> FALSE, error |-> conv.error, names |-> "", d |-> conv.d]
        ELSE IF ~ctor.ok THEN [ok |-> FALSE, error |-> ctor.error, names |-> ctor.names, d |-> conv.d]
        ELSE IF ~fit_ok THEN [ok |-> FALSE, error |-> "ClassifierError", names |-> "", d |-> conv.d]
        ELSE [ok |-> TRUE, error |-> "", names |-> "", d |-> conv.d]

\* _fit_cv(X, y, groups, selection_settings): the cross-validated search over
\* the resolved grid; `search_ok` is whether the search succeeds
FitCV(settings, y, enc, search_ok) ==
    LET conv == ConvertParams(Some(settings.grid), y, TRUE, enc)
        ctor == GetModelConstructor(config.classifier_type)
    IN  IF ~conv.ok THEN [ok |-> FALSE, error |-> conv.error, names |-> "", grid |-> conv.d]
        ELSE IF ~ctor.ok THEN [ok |-> FALSE, error |-> ctor.error, names |-> ctor.names, grid |-> conv.d]
        ELSE IF ~search_ok THEN [ok |-> FALSE, error |-> "SearchError", names |-> "", grid |-> conv.d]
        ELSE [ok |-> TRUE, error |-> "", names |-> "", grid |-> conv.d]

\* a faulty variant of EffectiveParams: no fallback to the configured set
EffectiveParamsAsPassed(params) == params

\* params = params or self.config.params
EffectiveParams(params) == IF Truthy(params) THEN params ELSE config.params

\* skip_param_selection = params is not None or self.config.param_selection is None
SkipParamSelection(params) == ~params.none \/ config.param_selection.none

\* a faulty variant of IsDegenerate: only the empty label set is degenerate
IsDegenerateWhenEmpty(labels) == Cardinality(Range(labels)) < 1

\* len(set(distinct_labels)) <= 1
IsDegenerate(labels) == Cardinality(Range(labels)) <= 1

\* fit(examples, labels, params)
Fit(examples, labels, explicit, perm) ==
    LET params == EffectiveParams(explicit)
        skip_param_selection == SkipParamSelection(params)
        shuffled_examples == Reindex(examples, perm)
        shuffled_labels == Reindex(labels, perm)
        raw == [i \in DOMAIN shuffled_labels |-> LabelEncode(shuffled_labels[i])]
        feats == [i \in DOMAIN shuffled_examples |-> ExtractFeatures(shuffled_examples[i])]
        enc == ClassEncoderFit(raw)
        y == ClassEncoderTransform(enc, raw)
        entered == [Call("fit") EXCEPT !.explicit = explicit,
                                       !.distinct = Cardinality(Range(labels))]
    IN  /\ UNCHANGED resources
        /\ IF IsDegenerate(shuffled_labels)
           THEN /\ call' = entered
                /\ result' = Returned
                /\ UNCHANGED <<config, fitted_state, current_params, completed>>
           ELSE /\ FitPipeline(raw, feats)
                /\ IF skip_param_selection
                   THEN \E fit_ok \in BOOLEAN :
                        LET done == DirectFit(params, y, enc, fit_ok) IN
                        /\ call' = [entered EXCEPT !.mode = "direct", !.extracted = Len(examples)]
                        \* params is the configuration's own dict unless a
                        \* non-empty explicit one was passed
                        /\ config' = IF Truthy(explicit) \/ params.none THEN config
                                     ELSE [config EXCEPT !.params = Some(done.d)]
                        /\ IF done.ok
                           THEN /\ clf' = FittedClf(config.classifier_type, done.d, Len(enc.classes_))
                                /\ current_params' = Some(done.d)
                                /\ result' = Returned
                                /\ completed' = completed \cup {"fit"}
                           ELSE /\ UNCHANGED <<clf, current_params, completed>>
                                /\ result' = Raised(done.error, done.names)
                   ELSE \E search_ok \in BOOLEAN :
                        LET done == FitCV(config.param_selection, y, enc, search_ok) IN
                        /\ call' = [entered EXCEPT !.mode = "cv", !.extracted = Len(examples)]
                        /\ UNCHANGED config
                        /\ IF done.ok
                           THEN \E best_params \in Candidates(done.grid) :
                                /\ clf' = FittedClf(config.classifier_type, best_params,
                                                    Len(enc.classes_))
                                /\ current_params' = Some(best_params)
                                /\ result' = Returned
                                /\ completed' = completed \cup {"fit"}
                           ELSE /\ UNCHANGED <<clf, current_params, completed>>
                                /\ result' = Raised(done.error, done.names)

\* select_params(examples, labels, selection_settings): the same preparation
\* without the shuffle and without the label-count test, then the search
SelectParams(examples, labels, selection_settings) ==
    LET settings == IF selection_settings.none THEN config.param_selection
                    ELSE selection_settings
        raw == [i \in DOMAIN labels |-> LabelEncode(labels[i])]
        feats == [i \in DOMAIN examples |-> ExtractFeatures(examples[i])]
        enc == ClassEncoderFit(raw)
        y == ClassEncoderTransform(enc, raw)
        entered == [Call("select_params") EXCEPT !.mode = "cv", !.extracted = Len(examples),
                                                 !.distinct = Cardinality(Range(labels))]
    IN  /\ ~settings.none
        /\ call' = entered
        /\ UNCHANGED <<config, resources, current_params>>
        /\ IF examples = <<>>
           THEN \* DictVectorizer.fit_transform raises on an empty batch, after
                \* the class encoder was fitted
                /\ class_encoder' = enc
                /\ UNCHANGED <<feat_vectorizer, feat_scaler, feat_selector, clf, completed>>
                /\ result' = Raised("ValueError", "")
           ELSE /\ FitPipeline(raw, feats)
                /\ \E search_ok \in BOOLEAN :
                   LET done == FitCV(settings, y, enc, search_ok) IN
                   IF done.ok
                   THEN \E best_params \in Candidates(done.grid) :
                        /\ clf' = FittedClf(config.classifier_type, best_params,
                                            Len(enc.classes_))
                        /\ result' = [Returned EXCEPT !.params = Some(best_params)]
                        /\ completed' = completed \cup {"select_params"}
                   ELSE /\ UNCHANGED <<clf, completed>>
                        /\ result' = Raised(done.error, done.names)

----------------------------------------------------------------------------
(* Prediction *)

\* _preprocess_data(X, fit=False) succeeds when every configured stage is fitted
CanTransform ==
    /\ feat_vectorizer.fitted
    /\ feat_scaler.kind = "none" \/ feat_scaler.fitted
    /\ feat_selector.kind = "none" \/ feat_selector.fitted

\* a faulty variant of Better: an equal probability replaces the current best
BetterOrEqual(proba, best) == ~FGt(best, proba)

\* proba > probabilities.get(top_class, -1.0)
Better(proba, best) == FGt(proba, best)

\* the loop of _predict_proba over one row, from class index i - 1 on
RECURSIVE DecodeFrom(_, _, _, _, _)
DecodeFrom(enc, row, i, top_class, probabilities) ==
    IF i > Len(row)
    THEN [top |-> top_class, probas |-> probabilities]
    ELSE LET raw_class == InverseTransform(enc, i - 1)
             decoded_class == LabelDecode(raw_class)
             updated == DictSet(probabilities, decoded_class, row[i])
         IN  DecodeFrom(enc, row, i + 1,
                        IF Better(row[i], DictGet(updated, top_class, MinusOne))
                        THEN decoded_class ELSE top_class,
                        updated)

\* one (top_class, probabilities) pair of _predict_proba; top_class starts as None
DecodeRow(enc, row) == DecodeFrom(enc, row, 1, "None", EmptyDict)

\* inverse_transform([class_index]) succeeds for every class index of the row
CanDecodeRow(enc, row) == \A i \in DOMAIN row : CanInverse(enc, i - 1)

\* _predict_proba(X, predictor) on the rows the predictor returned
PredictProbaRows(enc, rows) == [r \in DOMAIN rows |-> DecodeRow(enc, rows[r])]

\* a faulty variant of ReplaceInfinity: nothing is replaced
KeepInfinity(prediction) == prediction

\* the replacement loop of predict_log_proba on one prediction
ReplaceInfinity(prediction) ==
    [prediction EXCEPT !.probas =
        [label \in DOMAIN prediction.probas |->
            IF prediction.probas[label] = NegInfinity THEN _NEG_INF
            ELSE prediction.probas[label]]]

\* a faulty variant of PredictFailure: a missing classifier goes unnoticed
PredictFailureOfPipeline(predict_ok) ==
    IF ~CanTransform THEN "NotFittedError"
    ELSE IF ~predict_ok THEN "ClassifierError"
    ELSE ""

\* the steps shared by the prediction entry points: the transform-mode feature
\* matrix, then the classifier's method; "" when both succeed
PredictFailure(predict_ok) ==
    IF ~CanTransform THEN "NotFittedError"
    ELSE IF clf.none THEN "AttributeError"
    ELSE IF ~predict_ok THEN "ClassifierError"
    ELSE ""

\* predict(examples); ys is what the classifier's predict returns
Predict(examples) ==
    /\ UNCHANGED <<config, fitted_state, current_params, resources, completed>>
    /\ call' = [Call("predict") EXCEPT !.extracted = Len(examples)]
    /\ \E predict_ok \in BOOLEAN :
       LET failure == PredictFailure(predict_ok) IN
       IF failure # ""
       THEN result' = Raised(failure, "")
       ELSE \E ys \in [DOMAIN examples -> 0..(clf.n_classes - 1)] :
            IF \A i \in DOMAIN ys : CanInverse(class_encoder, ys[i])
            THEN result' = [Returned EXCEPT !.labels =
                    [i \in DOMAIN ys |-> LabelDecode(InverseTransform(class_encoder, ys[i]))]]
            ELSE result' = Raised("ValueError", "")

\* the rows a classifier with n_classes classes returns for a batch: one
\* distribution over the classes per example
RowsOf(examples, values) ==
    [DOMAIN examples ->
        {row \in [1..clf.n_classes -> values] : TotalMass(row, values = LogProbaValues) = 6}]

\* predict_proba(examples)
PredictProba(examples) ==
    /\ UNCHANGED <<config, fitted_state, current_params, resources, completed>>
    /\ \E predict_ok \in BOOLEAN :
       LET failure == PredictFailure(predict_ok)
           entered == [Call("predict_proba") EXCEPT !.extracted = Len(examples)]
       IN
       IF failure # ""
       THEN call' = entered /\ result' = Raised(failure, "")
       ELSE \E rows \in RowsOf(examples, ProbaValues) :
            /\ call' = [entered EXCEPT !.rows = rows]
            /\ IF \A r \in DOMAIN rows : CanDecodeRow(class_encoder, rows[r])
               THEN result' = [Returned EXCEPT !.predictions =
                                  PredictProbaRows(class_encoder, rows)]
               ELSE result' = Raised("ValueError", "")

\* predict_log_proba(examples)
PredictLogProba(examples) ==
    /\ UNCHANGED <<config, fitted_state, current_params, resources, completed>>
    /\ \E predict_ok \in BOOLEAN :
       LET failure == PredictFailure(predict_ok)
           entered == [Call("predict_log_proba") EXCEPT !.extracted = Len(examples)]
       IN
       IF failure # ""
       THEN call' = entered /\ result' = Raised(failure, "")
       ELSE \E rows \in RowsOf(examples, LogProbaValues) :
            /\ call' = [entered EXCEPT !.rows = rows]
            /\ IF \A r \in DOMAIN rows : CanDecodeRow(class_encoder, rows[r])
               THEN result' = [Returned EXCEPT !.predictions =
                       LET predictions == PredictProbaRows(class_encoder, rows)
                       IN  [r \in DOMAIN predictions |-> ReplaceInfinity(predictions[r])]]
               ELSE result' = Raised("ValueError", "")

\* _get_effective_config(): the configuration with the current parameters
EffectiveConfig == [config EXCEPT !.params = current_params]

\* evaluate(examples, labels)
Evaluate(examples, labels) ==
    /\ UNCHANGED <<config, fitted_state, current_params, resources, completed>>
    /\ \E predict_ok \in BOOLEAN :
       LET failure == PredictFailure(predict_ok)
           entered == [Call("evaluate") EXCEPT !.extracted = Len(examples)]
       IN
       IF failure # ""
       THEN call' = entered /\ result' = Raised(failure, "")
       ELSE \E rows \in RowsOf(examples, ProbaValues) :
            /\ call' = [entered EXCEPT !.rows = rows]
            /\ IF \A r \in DOMAIN rows : CanDecodeRow(class_encoder, rows[r])
               THEN result' = [Returned EXCEPT !.evaluations =
                       LET predictions == PredictProbaRows(class_encoder, rows)
                       IN  [i \in DOMAIN examples |->
                              [example |-> examples[i], expected |-> labels[i],
                               predicted |-> predictions[i].top,
                               probas |-> predictions[i].probas,
                               label_type |-> EffectiveConfig.label_type]]]
               ELSE result' = Raised("ValueError", "")

----------------------------------------------------------------------------
(* Pickling *)

WORD_FREQ_RSC == "w_freq"
QUERY_FREQ_RSC == "q_freq"
GAZETTEER_RSC == "gazetteers"

\* self.__dict__
Attributes ==
    [config |-> config, _class_encoder |-> class_encoder,
     _feat_vectorizer |-> feat_vectorizer, _feat_scaler |-> feat_scaler,
     _feat_selector |-> feat_selector, _clf |-> clf,
     _current_params |-> current_params, _resources |-> resources]

\* a faulty variant of PrunedResources: the cache is kept whole
UnprunedResources(rsc) == rsc

\* the _resources entry of __getstate__
PrunedResources(rsc) ==
    [k \in {WORD_FREQ_RSC, QUERY_FREQ_RSC} |-> DictGet(rsc, k, EmptyDict)]

\* __getstate__()
GetState ==
    /\ UNCHANGED <<config, fitted_state, current_params, resources, completed>>
    /\ call' = Call("__getstate__")
    /\ result' = [Returned EXCEPT !.attributes =
                     <<[Attributes EXCEPT !._resources = PrunedResources(resources)]>>]

\* the tables a resource may hold
ResourceValues == {[w \in {"hello"} |-> 1]}

\* a runtime resource is loaded into the cache
LoadResource(name, value) ==
    /\ resources' = DictSet(resources, name, value)
    /\ call' = Call("load_resource")
    /\ result' = Returned
    /\ UNCHANGED <<config, fitted_state, current_params, completed>>

----------------------------------------------------------------------------
(* The state machine *)

Bias(n, d) == Rat(n, d)

\* the fixed parameter sets a configuration may carry
ConfigParams == {None, Some([k \in {"class_bias"} |-> Bias(1, 2)])}

\* the parameter-selection specifications a configuration may carry
Selections ==
    {[none |-> TRUE, grid |-> EmptyDict],
     [none |-> FALSE, grid |-> [k \in {"class_bias"} |-> <<Bias(0, 1), Bias(1, 1)>>]]}

\* a configuration carries a parameter set, a selection specification or both
Configs ==
    {c \in [classifier_type : {LOG_REG_TYPE, "bogus"},
            params : ConfigParams,
            param_selection : Selections,
            feature_scaler : {"none", "max-abs"},
            feature_selector : {"none", "f"},
            label_type : {"class"}] :
        /\ ~(c.params.none /\ c.param_selection.none)
        /\ c.feature_scaler = "none" <=> c.feature_selector = "none"}

\* the params argument of fit: absent, empty, or a parameter set
ExplicitParams == {None, Some(EmptyDict), Some([k \in {"C"} |-> 2])}

\* the selection_settings argument of select_params
ExplicitSelections ==
    {[none |-> TRUE, grid |-> EmptyDict],
     [none |-> FALSE, grid |-> [k \in {"C"} |-> <<1, 2>>]]}

\* TextModel(config)
Init ==
    /\ config \in Configs
    /\ class_encoder = NewClassEncoder
    /\ feat_vectorizer = NewVectorizer
    /\ feat_scaler = GetFeatureScaler(config.feature_scaler)
    /\ feat_selector = GetFeatureSelector(config.feature_selector)
    /\ clf = NoClf
    /\ current_params = None
    /\ resources = EmptyDict
    /\ call = Call("__init__")
    /\ result = Returned
    /\ completed = {}

\* the (example, label) pairs training batches are made of, in a fixed order
TrainingPairs == << <<"e1", "a">>, <<"e1", "b">>, <<"e1", "c">>, <<"e2", "a">> >>

\* the training batches passed to fit and select_params: up to MaxLen pairs.
\* fit shuffles its batch before anything else looks at it, so one order per
\* multiset of pairs is drawn
TrainingBatches ==
    UNION {{[i \in 1..n |-> TrainingPairs[idx[i]]] :
               idx \in {f \in [1..n -> DOMAIN TrainingPairs] :
                           \A i \in 1..n, j \in 1..n : i < j => f[i] <= f[j]}} :
           n \in 0..MaxLen}

ExamplesOf(batch) == [i \in DOMAIN batch |-> batch[i][1]]

LabelsOf(batch) == [i \in DOMAIN batch |-> batch[i][2]]

ShufflesUpTo == [n \in 0..MaxLen |-> Shuffles(n)]

\* one permutation for every distinct reordering of the batch
DistinctShuffles(batch) ==
    LET all == ShufflesUpTo[Len(batch)]
    IN  {CHOOSE p \in all : Reindex(batch, p) = b : b \in {Reindex(batch, p) : p \in all}}

ShufflesOf == [batch \in TrainingBatches |-> DistinctShuffles(batch)]

DoFit ==
    \E batch \in TrainingBatches, explicit \in ExplicitParams :
        \E perm \in ShufflesOf[batch] :
            Fit(ExamplesOf(batch), LabelsOf(batch), explicit, perm)

DoSelectParams ==
    \E batch \in TrainingBatches, selection_settings \in ExplicitSelections :
        SelectParams(ExamplesOf(batch), LabelsOf(batch), selection_settings)

\* the batches passed to the prediction entry points: empty, or one example
\* (the rows of a batch are decoded one by one, independently)
PredictionBatches == SeqsUpTo(Examples, 1)

DoPredict == \E examples \in PredictionBatches : Predict(examples)

DoPredictProba == \E examples \in PredictionBatches : PredictProba(examples)

DoPredictLogProba == \E examples \in PredictionBatches : PredictLogProba(examples)

\* the (example, gold label) pairs evaluation batches are made of
EvaluationPairs == {<<"e1", "a">>, <<"e2", "b">>}

DoEvaluate ==
    \E batch \in SeqsUpTo(EvaluationPairs, 1) :
        Evaluate(ExamplesOf(batch), LabelsOf(batch))

DoLoadResource ==
    \E name \in {WORD_FREQ_RSC, QUERY_FREQ_RSC, GAZETTEER_RSC}, value \in ResourceValues :
        LoadResource(name, value)

Next ==
    \/ DoFit
    \/ DoPredict
    \/ DoPredictProba
    \/ DoPredictLogProba
    \/ DoEvaluate

\* training and serving one model
Spec == Init /\ [][Next]_vars

----------------------------------------------------------------------------
(* Training by either entry point, then serving *)

InitSelect ==
    /\ Init
    /\ config.classifier_type = LOG_REG_TYPE
    /\ config.feature_scaler = "none"
    /\ config.params.none

NextSelect ==
    \/ DoFit
    \/ DoSelectParams
    \/ DoPredict
    \/ DoPredictProba
    \/ DoPredictLogProba

SpecSelect == InitSelect /\ [][NextSelect]_vars

----------------------------------------------------------------------------
(* Pickling a model whose resource cache is being filled *)

InitPickle ==
    /\ Init
    /\ config.classifier_type = LOG_REG_TYPE
    /\ config.feature_scaler = "none"
    /\ config.param_selection.none

NextPickle ==
    \/ DoFit
    \/ DoLoadResource
    \/ GetState

SpecPickle == InitPickle /\ [][NextPickle]_vars

----------------------------------------------------------------------------
(* The parameter resolver on its own *)

\* the most examples of a training set the resolver is applied to
MaxExamples == 4

BiasValues == {Bias(0, 1), Bias(1, 2), Bias(1, 1)}

\* parameter sets with a class_bias entry, in the single shape
SingleParams == {[k \in {"C", "class_bias"} |-> IF k = "C" THEN 1 ELSE b] : b \in BiasValues}

\* parameter sets with a class_bias entry, in the grid shape: one or two candidates
GridParams ==
    {[k \in {"C", "class_bias"} |-> IF k = "C" THEN <<1, 2>> ELSE biases] :
        biases \in UNION {[1..n -> BiasValues] : n \in 1..2}}

Pending == [Returned EXCEPT !.status = "pending"]

\* the model as fit leaves it when it calls the resolver: the class encoder is
\* fitted on the training labels, y holds their class ids
InitConvert ==
    /\ config \in {c \in Configs : c.classifier_type = LOG_REG_TYPE /\ c.params.none
                                   /\ c.feature_scaler = "none"}
    /\ \E labels \in SeqsUpTo(Labels, MaxExamples) :
       LET raw == [i \in DOMAIN labels |-> LabelEncode(labels[i])] IN
       /\ labels # <<>>
       /\ class_encoder = ClassEncoderFit(raw)
       /\ feat_vectorizer = VectorizerFit([i \in DOMAIN labels |-> ExtractFeatures("e1")])
       /\ \E is_grid \in BOOLEAN :
          \E param_grid \in IF is_grid THEN GridParams ELSE SingleParams :
             call = [Call("_convert_params") EXCEPT
                        !.explicit = Some(param_grid), !.is_grid = is_grid,
                        !.distinct = Cardinality(Range(labels)),
                        !.y = ClassEncoderTransform(ClassEncoderFit(raw), raw)]
    /\ feat_scaler = GetFeatureScaler(config.feature_scaler)
    /\ feat_selector = GetFeatureSelector(config.feature_selector)
    /\ clf = NoClf
    /\ current_params = None
    /\ resources = EmptyDict
    /\ result = Pending
    /\ completed = {}

\* _convert_params(param_grid, y, is_grid) returns
DoConvertParams ==
    /\ result = Pending
    /\ call.op = "_convert_params"
    /\ LET conv == ConvertParams(call.explicit, call.y, call.is_grid, class_encoder) IN
       result' = IF conv.ok THEN [Returned EXCEPT !.params = Some(conv.d)]
                 ELSE Raised(conv.error, "")
    /\ UNCHANGED <<config, fitted_state, current_params, resources, call, completed>>

SpecConvert == InitConvert /\ [][DoConvertParams]_vars

----------------------------------------------------------------------------
(* The parameter resolver on parameter sets with a class_weight entry *)

\* the keys of a weight mapping: raw labels and class ids
WeightKeys == {StrKey("ra"), StrKey("rb"), StrKey("rc"), IntKey(0), IntKey(1)}

\* the weight given for a key: one value per key, so that a value that ends up
\* under another key shows
GivenWeight(k) ==
    IF k = StrKey("ra") THEN Rat(1, 2)
    ELSE IF k = StrKey("rb") THEN Rat(2, 1)
    ELSE IF k = StrKey("rc") THEN Rat(3, 1)
    ELSE IF k = IntKey(0) THEN Rat(4, 1)
    ELSE Rat(5, 1)

\* weight mappings of one or two keys
WeightMappings ==
    {[k \in keys |-> GivenWeight(k)] :
        keys \in {ks \in SUBSET WeightKeys : Cardinality(ks) \in 1..2}}

\* no two keys of the mapping name the same class
NamesClassesOnce(enc, cw_dict) ==
    \A k1 \in DOMAIN cw_dict, k2 \in DOMAIN cw_dict :
        (k1 # k2 /\ IsInt(k1) /\ ~IsInt(k2)) => IntKey(ClassId(enc, k2[2])) # k1

\* the other entries of a parameter set: C alone, or C and a class_bias
OtherEntries(is_grid, with_bias) ==
    LET c == IF is_grid THEN <<1, 2>> ELSE 1
        b == IF is_grid THEN <<Bias(1, 2)>> ELSE Bias(1, 2)
    IN  IF with_bias THEN [k \in {"C", "class_bias"} |-> IF k = "C" THEN c ELSE b]
        ELSE [k \in {"C"} |-> c]

\* parameter sets with a class_weight entry, single shape
SingleWeightParams ==
    {DictSet(OtherEntries(FALSE, with_bias), "class_weight", m) :
        with_bias \in BOOLEAN, m \in WeightMappings}

\* parameter sets with a class_weight entry, grid shape: one or two candidates
GridWeightParams ==
    {DictSet(OtherEntries(TRUE, with_bias), "class_weight", ms) :
        with_bias \in BOOLEAN, ms \in UNION {[1..n -> WeightMappings] : n \in 1..2}}

\* the weight mappings of a parameter set, as a list
WeightsOf(param_grid, is_grid) ==
    IF is_grid THEN param_grid["class_weight"] ELSE <<param_grid["class_weight"]>>

\* the model as fit leaves it when it calls the resolver on such a set
InitWeights ==
    /\ config \in {c \in Configs : c.classifier_type = LOG_REG_TYPE /\ c.params.none
                                   /\ c.feature_scaler = "none"}
    /\ \E labels \in SeqsUpTo(Labels, MaxExamples) :
       LET raw == [i \in DOMAIN labels |-> LabelEncode(labels[i])]
           enc == ClassEncoderFit(raw)
       IN
       /\ labels # <<>>
       /\ class_encoder = enc
       /\ feat_vectorizer = VectorizerFit([i \in DOMAIN labels |-> ExtractFeatures("e1")])
       /\ \E is_grid \in BOOLEAN :
          \E param_grid \in IF is_grid THEN GridWeightParams ELSE SingleWeightParams :
             /\ \A i \in DOMAIN WeightsOf(param_grid, is_grid) :
                   NamesClassesOnce(enc, WeightsOf(param_grid, is_grid)[i])
             /\ call = [Call("_convert_params") EXCEPT
                           !.explicit = Some(param_grid), !.is_grid = is_grid,
                           !.distinct = Cardinality(Range(labels)),
                           !.y = ClassEncoderTransform(enc, raw)]
    /\ feat_scaler = GetFeatureScaler(config.feature_scaler)
    /\ feat_selector = GetFeatureSelector(config.feature_selector)
    /\ clf = NoClf
    /\ current_params = None
    /\ resources = EmptyDict
    /\ result = Pending
    /\ completed = {}

SpecWeights == InitWeights /\ [][DoConvertParams]_vars

----------------------------------------------------------------------------
(* Serving a model fitted on two or three classes *)

\* the label lists of the training sets
TrainedLabels == {<<"a", "b">>, <<"a", "c">>, <<"c", "b">>, <<"b", "a", "c">>}

\* the model as fit(examples, labels, {"C": 2}) leaves it
InitDecode ==
    /\ config \in {c \in Configs : c.classifier_type = LOG_REG_TYPE /\ c.feature_scaler = "none"}
    /\ \E labels \in TrainedLabels :
       LET raw == [i \in DOMAIN labels |-> LabelEncode(labels[i])]
           explicit == Some([k \in {"C"} |-> 2])
       IN
       /\ class_encoder = ClassEncoderFit(raw)
       /\ feat_vectorizer = VectorizerFit([i \in DOMAIN labels |-> ExtractFeatures("e2")])
       /\ clf = FittedClf(LOG_REG_TYPE, explicit.d, Len(ClassEncoderFit(raw).classes_))
       /\ current_params = explicit
       /\ call = [Call("fit") EXCEPT !.explicit = explicit, !.mode = "direct",
                                     !.distinct = Cardinality(Range(labels)),
                                     !.extracted = Len(labels)]
    /\ feat_scaler = GetFeatureScaler(config.feature_scaler)
    /\ feat_selector = GetFeatureSelector(config.feature_selector)
    /\ resources = EmptyDict
    /\ result = Returned
    /\ completed = {"fit"}

NextDecode ==
    \/ DoPredict
    \/ DoPredictProba
    \/ DoPredictLogProba

SpecDecode == InitDecode /\ [][NextDecode]_vars

----------------------------------------------------------------------------
(* Properties *)

PredictionOps == {"predict", "predict_proba", "predict_log_proba"}

\* the classifier kinds _get_model_constructor knows
RecognizedKinds == {"logreg", "dtree", "rforest", "svm"}

\* the lowest index of row holding its maximum
FirstMax(row) ==
    CHOOSE i \in DOMAIN row :
        /\ \A j \in DOMAIN row : ~FGt(row[j], row[i])
        /\ \A j \in DOMAIN row : j < i => FGt(row[i], row[j])

\* the label of class index i - 1 under the current class encoder
LabelAt(i) == LabelDecode(class_encoder.classes_[i])

\* C1: a fit call whose labels hold at most one distinct value returns
\* successfully and leaves the class encoder, the vectorizer, the scaler, the
\* selector, the classifier and the current parameters as they were.
C1_DegenerateFitIsNoOp ==
    [][(call'.op = "fit" /\ call'.distinct <= 1)
          => /\ result'.status = "ok"
             /\ fitted_state' = fitted_state
             /\ current_params' = current_params]_vars

\* a degenerate fit has returned on a model that was fitted before
C1_Witness ==
    /\ call.op = "fit" /\ call.distinct = 1 /\ result.status = "ok"
    /\ ~clf.none /\ class_encoder.fitted

\* C2: with an unrecognized classifier kind, fit raises an error naming the
\* kind, and when it does no feature has been extracted and the class encoder,
\* the vectorizer, the scaler, the selector and the parameters are untouched.
C2_UnrecognizedKindFailsFast ==
    [][(call'.op = "fit" /\ config.classifier_type \notin RecognizedKinds)
          => /\ result'.status = "error"
             /\ result'.names = config.classifier_type
             /\ call'.extracted = 0
             /\ class_encoder' = class_encoder
             /\ feat_vectorizer' = feat_vectorizer
             /\ feat_scaler' = feat_scaler
             /\ feat_selector' = feat_selector
             /\ current_params' = current_params
             /\ config' = config]_vars

\* C3: the fitted state changes only across a fit call that returns: every
\* prediction or evaluation call and every fit call that raises leaves the
\* class encoder, the vectorizer, the scaler, the selector and the classifier
\* unchanged.
C3_OnlyCompletedFitMutates ==
    [][(\/ call'.op \in PredictionOps \cup {"evaluate"}
        \/ call'.op = "fit" /\ result'.status = "error")
          => fitted_state' = fitted_state]_vars

C5_ClassBiasWeights ==
    (call.op = "_convert_params" /\ result.status # "pending")
        => /\ result.status = "ok"
           /\ LET given == call.explicit.d
                  d == result.params.d
                  total == Len(call.y)
                  num_classes == Cardinality(Range(call.y))
                  count(c) == Cardinality({i \in DOMAIN call.y : call.y[i] = c})
                  Resolves(b, w) ==
                      /\ DOMAIN w = {IntKey(c) : c \in 0..(num_classes - 1)}
                      /\ \A c \in 0..(num_classes - 1) :
                         LET weight == w[IntKey(c)] IN
                         /\ weight[2] > 0
                         /\ weight[1] * (b[2] * num_classes * count(c))
                               = weight[2] * ((b[2] - b[1]) * num_classes * count(c) + b[1] * total)
                         /\ b[1] = 0 => weight[1] = weight[2]
                         /\ b[1] = b[2] => weight[1] * num_classes * count(c) = weight[2] * total
              IN  /\ DOMAIN d = {"C", "class_weight"}
                  /\ d["C"] = given["C"]
                  /\ IF call.is_grid
                     THEN /\ Len(d["class_weight"]) = Len(given["class_bias"])
                          /\ \A i \in DOMAIN given["class_bias"] :
                                Resolves(given["class_bias"][i], d["class_weight"][i])
                     ELSE Resolves(given["class_bias"], d["class_weight"])

\* class counts [3, 1] and bias 1/2, as the second candidate of a grid: the
\* weights are 5/6 and 3/2
C5_Witness ==
    /\ call.op = "_convert_params" /\ result.status = "ok" /\ call.is_grid
    /\ call.y = <<0, 0, 0, 1>>
    /\ Len(call.explicit.d["class_bias"]) = 2
    /\ call.explicit.d["class_bias"][2] = <<1, 2>>
    /\ result.params.d["class_weight"][2][IntKey(0)] = <<5, 6>>
    /\ result.params.d["class_weight"][2][IntKey(1)] = <<3, 2>>

\* the distribution of a prediction holds, per label, the value of its class
Distributes(prediction, row, Value(_)) ==
    /\ DOMAIN prediction.probas = {LabelAt(i) : i \in DOMAIN row}
    /\ \A i \in DOMAIN row : prediction.probas[LabelAt(i)] = Value(row[i])

Same(v) == v

\* C6: predict_proba returns as top label the decoded label of the lowest
\* class index holding the maximum probability; its entry is the maximum of
\* the returned distribution.
C6_TopIsFirstMaximum ==
    (call.op = "predict_proba" /\ result.status = "ok")
        => /\ DOMAIN result.predictions = DOMAIN call.rows
           /\ \A r \in DOMAIN call.rows :
              LET row == call.rows[r]
                  prediction == result.predictions[r]
              IN  /\ Distributes(prediction, row, Same)
                  /\ prediction.top = LabelAt(FirstMax(row))
                  /\ \A label \in DOMAIN prediction.probas :
                        ~FGt(prediction.probas[label], prediction.probas[prediction.top])

\* three classes, the last two tied at the maximum: the earlier one is the top
C6_Witness ==
    /\ call.op = "predict_proba" /\ result.status = "ok"
    /\ call.rows = << <<Fin(0), Fin(5000), Fin(5000)>> >>
    /\ result.predictions[1].top = "b"

\* C7: predict_log_proba returns as top label the decoded label of the
\* lowest class index holding the maximum log-probability, which is one of
\* the labels of the returned distribution.
C7_LogTopIsFirstMaximum ==
    (call.op = "predict_log_proba" /\ result.status = "ok")
        => \A r \in DOMAIN call.rows :
              /\ result.predictions[r].top = LabelAt(FirstMax(call.rows[r]))
              /\ result.predictions[r].top \in DOMAIN result.predictions[r].probas

\* -1e10
Sentinel == [inf |-> 0, hi |-> -1, lo |-> 0]

Finite(v) == IF v.inf = -1 THEN Sentinel ELSE v

\* C8: no value returned by predict_log_proba is negative infinity: a class
\* whose log-probability is negative infinity is reported as -1e10, every
\* other value is returned unchanged, and the call does not raise on rows the
\* class encoder can decode.
C8_NoInfinityReturned ==
    (call.op = "predict_log_proba" /\ call.rows # <<>>)
        => /\ result.status = "ok" <=>
                 \A r \in DOMAIN call.rows : \A i \in DOMAIN call.rows[r] :
                    i <= Len(class_encoder.classes_)
           /\ result.status = "ok" =>
                 /\ DOMAIN result.predictions = DOMAIN call.rows
                 /\ \A r \in DOMAIN call.rows :
                       /\ Distributes(result.predictions[r], call.rows[r], Finite)
                       /\ \A label \in DOMAIN result.predictions[r].probas :
                             result.predictions[r].probas[label].inf = 0

\* a row with an infinite entry has been returned
C8_Witness ==
    /\ call.op = "predict_log_proba" /\ result.status = "ok"
    /\ call.rows = << <<Fin(-6931), NegInfinity, Fin(-6931)>> >>
    /\ result.predictions[1].probas["b"] = Sentinel
    /\ result.predictions[1].probas["c"] = Fin(-6931)

\* C9 as stated: while no fit call with two or more distinct labels has
\* completed, predict, predict_proba and predict_log_proba end in an error.
C9_NoFitNoPrediction ==
    (call.op \in PredictionOps /\ "fit" \notin completed) => result.status = "error"

\* C9 as amended: while neither a fit call with two or more distinct labels
\* nor a select_params call has completed, predict, predict_proba and
\* predict_log_proba end in an error and return no label or distribution.
C9_NoTrainingNoPrediction ==
    (call.op \in PredictionOps /\ completed = {})
        => /\ result.status = "error"
           /\ result.labels = <<>>
           /\ result.predictions = <<>>

\* a prediction has failed on a model whose pipeline a failed fit has fitted
C9_Witness ==
    /\ call.op \in PredictionOps /\ completed = {}
    /\ feat_vectorizer.fitted /\ class_encoder.fitted
    /\ result.status = "error"

\* C10: the serialized form holds every attribute as the live model has it,
\* except the resource cache, which holds exactly the word-frequency and the
\* query-frequency entry, each the live value or an empty mapping; producing
\* it leaves the live model unchanged.
C10_SerializedFormPrunesResources ==
    [][call'.op = "__getstate__"
          => /\ Len(result'.attributes) = 1
             /\ LET attributes == result'.attributes[1] IN
                /\ attributes.config = config
                /\ attributes._class_encoder = class_encoder
                /\ attributes._feat_vectorizer = feat_vectorizer
                /\ attributes._feat_scaler = feat_scaler
                /\ attributes._feat_selector = feat_selector
                /\ attributes._clf = clf
                /\ attributes._current_params = current_params
                /\ DOMAIN attributes._resources = {WORD_FREQ_RSC, QUERY_FREQ_RSC}
                /\ \A name \in {WORD_FREQ_RSC, QUERY_FREQ_RSC} :
                      attributes._resources[name] =
                          IF name \in DOMAIN resources THEN resources[name] ELSE EmptyDict
             /\ UNCHANGED <<config, fitted_state, current_params, resources>>]_vars

\* a fitted model with a gazetteer and a word-frequency table loaded and no
\* query-frequency table has been serialized
C10_Witness ==
    /\ call.op = "__getstate__" /\ ~clf.none
    /\ DOMAIN resources = {GAZETTEER_RSC, WORD_FREQ_RSC}
    /\ DOMAIN result.attributes[1]._resources = {WORD_FREQ_RSC, QUERY_FREQ_RSC}
    /\ result.attributes[1]._resources[QUERY_FREQ_RSC] = EmptyDict

\* the class id of raw label r: its position among the fitted classes
IdOf(r) == (CHOOSE i \in DOMAIN class_encoder.classes_ : class_encoder.classes_[i] = r) - 1

\* the key a given key must be found under
Translated(k) == IF k[1] = "int" THEN k ELSE <<"int", IdOf(k[2])>>

\* mapping w holds the weights of mapping m under the translated keys
Translates(m, w) ==
    /\ DOMAIN w = {Translated(k) : k \in DOMAIN m}
    /\ \A k \in DOMAIN m : w[Translated(k)] = m[k]

C12_FitKeepsConfiguration ==
    [][(call'.op = "fit" /\ call'.explicit.none)
          => /\ config' = config
             /\ ~config'.params.none
                   => /\ "class_bias" \in DOMAIN config'.params.d
                      /\ "class_weight" \notin DOMAIN config'.params.d]_vars

====
